---- MODULE Spec2Model ----
(***************************************************************************)
(* Ingestion pipeline of quant-lake-core: the ETL orchestrators            *)
(* (run_etl of the crypto and of the Yahoo pipeline), the instrument       *)
(* resolvers, the bulk upsert save_market_data on one SQLAlchemy session,  *)
(* and the provider adapters' fetch_ohlcv.                                 *)
(***************************************************************************)
EXTENDS Integers, Sequences, FiniteSets, TLC

\* ---------------------------------------------------------------------------
\* Bounds of the model
\* ---------------------------------------------------------------------------
MaxTime == 1
MaxRows == 2
MaxTick == 4
PageSize == 2
MaxFullPages == 1
MaxSeedItems == 2
MaxSeedRuns == 2
MaxScore == 3
MaxText == 2

Times == 0..MaxTime
SymbolNames == {"A", "B", "C"}

\* A run lists at most as many symbols as there are names.
MaxSymbols == Cardinality(SymbolNames)

\* The OHLCV values a provider can report for one candle.
Payloads ==
  { [open |-> 1, high |-> 2, low |-> 1, close |-> 2, volume |-> 5],
    [open |-> 3, high |-> 4, low |-> 3, close |-> 4, volume |-> 7] }

Candle(t, p) ==
  [time |-> t, open |-> p.open, high |-> p.high, low |-> p.low,
   close |-> p.close, volume |-> p.volume]

Candles == {Candle(t, p) : t \in Times, p \in Payloads}

SeqsUpTo(S, n) == UNION {[1..k -> S] : k \in 0..n}

\* DataFrames a fetch_ohlcv call can hand to run_etl: up to MaxRows rows in
\* index order, timestamps may repeat; one call reports one payload.
Ascending(ts) == \A i \in DOMAIN ts : \A j \in DOMAIN ts : i < j => ts[i] <= ts[j]

Frames ==
  {[i \in DOMAIN ts |-> Candle(ts[i], p)] :
     ts \in {t \in SeqsUpTo(Times, MaxRows) : Ascending(t)}, p \in Payloads}

StrictlyAscending(df) ==
  \A i \in DOMAIN df : \A j \in DOMAIN df : i < j => df[i].time < df[j].time

\* The symbols argument of a run: up to MaxSymbols names, repeats allowed,
\* listed in the order of the configuration file.
SymbolRank == [s \in SymbolNames |-> IF s = "A" THEN 1 ELSE IF s = "B" THEN 2 ELSE 3]

SymbolLists ==
  {l \in SeqsUpTo(SymbolNames, MaxSymbols) :
     \A i \in DOMAIN l : \A j \in DOMAIN l :
        i < j => SymbolRank[l[i]] <= SymbolRank[l[j]]}

NoAsset == [id |-> 0]

\* ---------------------------------------------------------------------------
\* Tables
\* ---------------------------------------------------------------------------
\* Asset rows: the columns of models.Asset the pipeline reads or writes.
AssetRow(id, symbol, exchange, cls, active) ==
  [id |-> id, symbol |-> symbol, exchange |-> exchange,
   asset_class |-> cls, is_active |-> active]

\* MarketQuote rows.
QuoteRow(r, now) ==
  [time |-> r.time, asset_id |-> r.asset_id, open |-> r.open, high |-> r.high,
   low |-> r.low, close |-> r.close, volume |-> r.volume, created_at |-> now]

\* What the database holds when a run starts: nothing, seeded master data
\* with quotes of an earlier ingestion, or master data in which one symbol
\* is listed on two exchanges.
SeededAssets ==
  { AssetRow(1, "A", "BINANCE", "CRYPTO", TRUE),
    AssetRow(2, "B", "NASDAQ", "STOCK", TRUE),
    AssetRow(3, "C", "NASDAQ", "STOCK", FALSE) }

DualListedAssets ==
  { AssetRow(1, "A", "NASDAQ", "STOCK", TRUE),
    AssetRow(2, "B", "NASDAQ", "STOCK", TRUE),
    AssetRow(3, "B", "SET", "STOCK", TRUE),
    AssetRow(4, "C", "NASDAQ", "STOCK", TRUE) }

EarlierQuotes(p) ==
  { QuoteRow(Candle(0, p) @@ [asset_id |-> id], "earlier") : id \in {1, 2} }

InitialStores ==
  { [assets |-> {}, quotes |-> {}],
    [assets |-> DualListedAssets, quotes |-> {}] }
  \cup { [assets |-> SeededAssets, quotes |-> EarlierQuotes(p)] :
           p \in {q \in Payloads : q.open = 1} }

MaxId(tbl) == IF tbl = {} THEN 0 ELSE CHOOSE m \in {a.id : a \in tbl} : \A a \in tbl : a.id <= m

\* ---------------------------------------------------------------------------
\* save_market_data: the statement
\* ---------------------------------------------------------------------------
\* records list built from df.iterrows()
Records(asset_id, df) ==
  [i \in DOMAIN df |->
     [time |-> df[i].time, asset_id |-> asset_id, open |-> df[i].open,
      high |-> df[i].high, low |-> df[i].low, close |-> df[i].close,
      volume |-> df[i].volume]]

SameKey(a, b) == a.time = b.time /\ a.asset_id = b.asset_id

\* PostgreSQL rejects an INSERT .. ON CONFLICT DO UPDATE whose VALUES list
\* proposes the same conflict key twice (cardinality violation).
AffectsRowTwice(records) ==
  \E i \in DOMAIN records : \E j \in DOMAIN records :
     i # j /\ SameKey(records[i], records[j])

\* A plain INSERT that ignores the conflict target.
RECURSIVE InsertOnly(_, _, _)
InsertOnly(table, records, now) ==
  IF records = <<>> THEN table
  ELSE InsertOnly(table \cup {QuoteRow(Head(records), now)}, Tail(records), now)

\* ON CONFLICT DO NOTHING instead of DO UPDATE.
RECURSIVE OnConflictDoNothing(_, _, _)
OnConflictDoNothing(table, records, now) ==
  IF records = <<>> THEN table
  ELSE LET r == Head(records)
           hit == {q \in table : SameKey(q, r)}
           nxt == IF hit = {} THEN table \cup {QuoteRow(r, now)} ELSE table
       IN OnConflictDoNothing(nxt, Tail(records), now)

\* A load that first deletes the stored rows of the batch's instruments.
ReplaceInstrumentRows(table, records, now) ==
  {q \in table : \A i \in DOMAIN records : q.asset_id # records[i].asset_id}
    \cup {QuoteRow(records[i], now) : i \in DOMAIN records}

\* DO UPDATE that adds the proposed volume to the stored one.
RECURSIVE OnConflictAccumulate(_, _, _)
OnConflictAccumulate(table, records, now) ==
  IF records = <<>> THEN table
  ELSE LET r == Head(records)
           hit == {q \in table : SameKey(q, r)}
           nxt == IF hit = {}
                  THEN table \cup {QuoteRow(r, now)}
                  ELSE (table \ hit) \cup
                       {[q EXCEPT !.open = r.open, !.high = r.high, !.low = r.low,
                                  !.close = r.close, !.volume = q.volume + r.volume] : q \in hit}
       IN OnConflictAccumulate(nxt, Tail(records), now)

\* A load that empties the table and keeps the batch only.
TruncateAndLoad(table, records, now) ==
  {QuoteRow(records[i], now) : i \in DOMAIN records}

\* DO UPDATE that also stamps the overwritten row with the statement's time.
RECURSIVE OnConflictTouch(_, _, _)
OnConflictTouch(table, records, now) ==
  IF records = <<>> THEN table
  ELSE LET r == Head(records)
           hit == {q \in table : SameKey(q, r)}
       IN OnConflictTouch((table \ hit) \cup {QuoteRow(r, now)}, Tail(records), now)

\* insert(MarketQuote).values(records).on_conflict_do_update(
\*    index_elements=[time, asset_id], set_={open, high, low, close, volume})
RECURSIVE OnConflictDoUpdate(_, _, _)
OnConflictDoUpdate(table, records, now) ==
  IF records = <<>> THEN table
  ELSE LET r == Head(records)
           hit == {q \in table : SameKey(q, r)}
           nxt == IF hit = {}
                  THEN table \cup {QuoteRow(r, now)}
                  ELSE (table \ hit) \cup
                       {[q EXCEPT !.open = r.open, !.high = r.high, !.low = r.low,
                                  !.close = r.close, !.volume = r.volume] : q \in hit}
       IN OnConflictDoUpdate(nxt, Tail(records), now)

\* A COMMIT that publishes the transaction's writes even when it fails.
CommitLeaky(committed, pending, ok) == pending

\* session.commit(): the transaction's writes become visible, or none does.
Commit(committed, pending, ok) == IF ok THEN pending ELSE committed

\* ---------------------------------------------------------------------------
\* State
\* ---------------------------------------------------------------------------
VARIABLES
  assets,     \* committed rows of table assets
  quotes,     \* committed rows of table market_quotes
  session,    \* the run's Session: "closed", "idle", "active", "failed"
  pending,    \* market_quotes as seen inside the session's transaction
  pipeline,   \* "crypto" (run_crypto_etl) or "yahoo" (run_yahoo_etl)
  symbols,    \* the symbols argument of run_etl
  idx,        \* position of the for loop in symbols
  pc,         \* position inside the loop body
  asset,      \* local variable asset
  df,         \* local variable df
  log,        \* what the run logged per symbol: own fault and outcome
  prior,      \* history: the batch of the latest committed save
  save,       \* history: what the latest executed statement met in the store
  returned,   \* what run_etl handed back to its caller
  count       \* what the latest save_market_data call returned; -1 before any

runVars == <<assets, quotes, session, pending, pipeline, symbols, idx, pc,
             asset, df, log, prior, save, returned, count>>

\* run_etl has not returned.
Running == [kind |-> "running"]

\* run_etl(...) -> None: the function ends without a return statement.
ReturnsNone == [kind |-> "None"]

NoSave == [repeat |-> FALSE, overwrote |-> FALSE, inserted |-> FALSE]

\* `continue`: the for loop moves to the next symbol or leaves the loop.
Continue(i, n) == IF i < n THEN "resolve" ELSE "finally"

\* An except clause that gives up on the remaining symbols.
OnExceptionAbort(i, n) == "finally"

\* An except clause that raises again: the exception leaves run_etl.
OnExceptionReraise(i, n) == "escaped"

\* except Exception: logger.error(...); continue
OnException(i, n) == Continue(i, n)

Entry(fault, outcome) == [fault |-> fault, outcome |-> outcome]

\* A statement on a session whose transaction failed and was not rolled back
\* raises (InFailedSqlTransaction / PendingRollbackError).
Usable(s) == s \in {"idle", "active"}

InitRun ==
  /\ \E st \in InitialStores : assets = st.assets /\ quotes = st.quotes
  /\ session = "closed"
  /\ pending = quotes
  /\ pipeline = "crypto"
  /\ symbols = <<>>
  /\ idx = 1
  /\ pc = "idle"
  /\ asset = NoAsset
  /\ df = <<>>
  /\ log = <<>>
  /\ prior = <<>>
  /\ save = NoSave
  /\ returned = Running
  /\ count = -1

\* run_etl up to the for loop: SessionLocal()
StartRun ==
  /\ pc = "idle"
  /\ \E p \in {"crypto", "yahoo"} : \E syms \in SymbolLists :
       /\ pipeline' = p
       /\ symbols' = syms
       /\ pc' = IF syms = <<>> THEN "finally" ELSE "resolve"
  /\ session' = "idle"
  /\ pending' = quotes
  /\ idx' = 1
  /\ asset' = NoAsset
  /\ df' = <<>>
  /\ log' = <<>>
  /\ UNCHANGED <<assets, quotes, prior, save, returned, count>>

\* The symbol ends in the except clause.
Raise(fault, s) ==
  /\ log' = Append(log, Entry(fault, "failed"))
  /\ session' = s
  /\ pc' = OnException(idx, Len(symbols))
  /\ idx' = idx + 1
  /\ asset' = NoAsset
  /\ df' = <<>>

\* The symbol ends with `continue` in the try body.
Skip(outcome) ==
  /\ log' = Append(log, Entry("none", outcome))
  /\ pc' = Continue(idx, Len(symbols))
  /\ idx' = idx + 1
  /\ asset' = NoAsset
  /\ df' = <<>>

\* A new instrument that is registered as inactive equity.
NewListedAsset(tbl, sym) == AssetRow(MaxId(tbl) + 1, sym, "BINANCE", "STOCK", FALSE)

\* Asset(symbol=symbol, asset_class=AssetClass.CRYPTO, exchange="BINANCE",
\* is_active=True), with the id the table assigns
NewCryptoAsset(tbl, sym) == AssetRow(MaxId(tbl) + 1, sym, "BINANCE", "CRYPTO", TRUE)

\* get_or_create_asset(session, symbol)
\* session.add(new_asset) left without a commit: no row reaches the table.
AddOnly(tbl, row) == tbl

\* session.add(new_asset); session.commit()
AddAndCommit(tbl, row) == tbl \cup {row}

get_or_create_asset ==
  /\ pc = "resolve" /\ pipeline = "crypto"
  /\ LET sym == symbols[idx]
         found == {a \in assets : a.symbol = sym /\ a.exchange = "BINANCE"}
         new == NewCryptoAsset(assets, sym)
     IN \/ /\ ~Usable(session)
           /\ Raise("none", session)
           /\ UNCHANGED <<assets>>
        \/ /\ Usable(session)
           /\ Raise("resolve", "failed")
           /\ UNCHANGED <<assets>>
        \/ /\ Usable(session) /\ Cardinality(found) > 1
           /\ Raise("ambiguous", "active")
           /\ UNCHANGED <<assets>>
        \/ /\ Usable(session) /\ Cardinality(found) = 1
           /\ asset' = CHOOSE a \in found : TRUE
           /\ session' = "active"
           /\ pc' = "fetch"
           /\ UNCHANGED <<assets, log, idx, df>>
        \/ /\ Usable(session) /\ found = {}
           /\ \/ \E s \in {"failed", "idle"} :
                   /\ Raise("resolve", s)
                   /\ UNCHANGED <<assets>>
              \/ /\ assets' = AddAndCommit(assets, new)
                 /\ Raise("resolve", "failed")
              \/ /\ assets' = AddAndCommit(assets, new)
                 /\ asset' = new
                 /\ session' = "active"
                 /\ pc' = "fetch"
                 /\ UNCHANGED <<log, idx, df>>
  /\ UNCHANGED <<quotes, pending, pipeline, symbols, prior, save, returned, count>>

\* Every instrument is taken as active.
AnyAssetActive(a) == TRUE

\* asset.is_active
IsActive(a) == a.is_active

\* A query ended with .first(): several rows are no error.
FirstOrNone(found) == FALSE

\* .one_or_none() raises MultipleResultsFound when the query matches more
\* than one row
MultipleResultsFound(found) == Cardinality(found) > 1

\* get_asset(session, symbol) and the two checks that follow it in run_etl
get_asset ==
  /\ pc = "resolve" /\ pipeline = "yahoo"
  /\ LET sym == symbols[idx]
         found == {a \in assets : a.symbol = sym}
     IN \/ /\ ~Usable(session)
           /\ Raise("none", session)
        \/ /\ Usable(session)
           /\ Raise("resolve", "failed")
        \/ /\ Usable(session) /\ MultipleResultsFound(found)
           /\ Raise("ambiguous", "active")
        \/ /\ Usable(session) /\ found = {}
           /\ session' = "active"
           /\ Skip("skipped")
        \/ /\ Usable(session) /\ ~MultipleResultsFound(found)
           /\ \E a \in found :
                IF ~IsActive(a)
                THEN /\ session' = "active"
                     /\ Skip("skipped")
                ELSE /\ asset' = a
                     /\ session' = "active"
                     /\ pc' = "fetch"
                     /\ UNCHANGED <<log, idx, df>>
  /\ UNCHANGED <<assets, quotes, pending, pipeline, symbols, prior, save, returned,
                 count>>

\* A loop body without the check of the fetched frame.
AlwaysData(frame) == FALSE

\* if df.empty: logger.warning(...); continue
NoData(frame) == frame = <<>>

\* df = fetcher.fetch_ohlcv(...); if df.empty: continue
Fetch ==
  /\ pc = "fetch"
  /\ \/ /\ Raise("fetch", session)
     \/ \E f \in Frames :
          /\ pipeline = "crypto" => StrictlyAscending(f)
          /\ IF NoData(f)
             THEN /\ Skip("no_data")
                  /\ UNCHANGED session
             ELSE /\ df' = f
                  /\ pc' = "execute"
                  /\ UNCHANGED <<log, idx, asset, session>>
  /\ UNCHANGED <<assets, quotes, pending, pipeline, symbols, prior, save, returned,
                 count>>

\* A check that lets every frame through.
NoEmptyGuard(frame) == FALSE

\* df.empty
IsEmpty(frame) == frame = <<>>

\* save_market_data up to session.execute(stmt), or all of it when df is empty
SaveExecute ==
  /\ pc = "execute"
  /\ LET records == Records(asset.id, df)
     IN IF IsEmpty(df)
        THEN /\ count' = 0
             /\ log' = Append(log, Entry("none", "success"))
             /\ pc' = Continue(idx, Len(symbols))
             /\ idx' = idx + 1
             /\ asset' = NoAsset
             /\ df' = <<>>
             /\ UNCHANGED <<session, pending, save>>
        ELSE /\ UNCHANGED count
             /\ \/ /\ ~Usable(session)
                   /\ Raise("none", session)
                   /\ UNCHANGED <<pending, save>>
                \/ /\ Usable(session)
                   /\ Raise("execute", "failed")
                   /\ UNCHANGED <<pending, save>>
                \/ /\ Usable(session) /\ ~AffectsRowTwice(records)
                   /\ pending' = OnConflictDoUpdate(quotes, records, "run")
                   /\ save' = [repeat |-> records = prior,
                               overwrote |-> \E i \in DOMAIN records : \E q \in quotes :
                                                SameKey(q, records[i]) /\ q.close # records[i].close,
                               inserted |-> \E i \in DOMAIN records :
                                                \A q \in quotes : ~SameKey(q, records[i])]
                   /\ session' = "active"
                   /\ pc' = "commit"
                   /\ UNCHANGED <<log, idx, asset, df>>
  /\ UNCHANGED <<assets, quotes, pipeline, symbols, prior, returned>>

\* session.commit(); return len(records); logger.info(...)
SaveCommit ==
  /\ pc = "commit"
  /\ \/ /\ quotes' = Commit(quotes, pending, TRUE)
        /\ pending' = pending
        /\ prior' = Records(asset.id, df)
        /\ count' = Len(Records(asset.id, df))
        /\ session' = "idle"
        /\ log' = Append(log, Entry("none", "success"))
        /\ pc' = Continue(idx, Len(symbols))
        /\ idx' = idx + 1
        /\ asset' = NoAsset
        /\ df' = <<>>
     \/ /\ quotes' = Commit(quotes, pending, FALSE)
        /\ pending' = quotes'
        /\ \E s \in {"failed", "idle"} : Raise("commit", s)
        /\ UNCHANGED <<prior, count>>
  /\ UNCHANGED <<assets, pipeline, symbols, save, returned>>

\* a finally clause that leaves the session as the loop left it
KeepSession(s) == s

\* session.close()
CloseSession(s) == "closed"

\* finally: session.close()
Finally ==
  /\ pc = "finally"
  /\ session' = CloseSession(session)
  /\ pending' = quotes
  /\ pc' = "done"
  /\ returned' = ReturnsNone
  /\ UNCHANGED <<assets, quotes, pipeline, symbols, idx, asset, df, log, prior, save,
                 count>>

\* save_market_data(session, asset.id, df) called with any frame, the empty
\* one included, on a session that is in a transaction or left failed
InitSave ==
  /\ \E st \in InitialStores : assets = st.assets /\ quotes = st.quotes
  /\ session \in {"active", "failed"}
  /\ pending = quotes
  /\ pipeline \in {"crypto", "yahoo"}
  /\ asset \in assets
  /\ symbols = <<asset.symbol>>
  /\ idx = 1
  /\ pc = "execute"
  /\ df \in Frames
  /\ log = <<>>
  /\ prior = <<>>
  /\ save = NoSave
  /\ returned = Running
  /\ count = -1

NextSave ==
  \/ SaveExecute
  \/ SaveCommit
  \/ Finally

NextRun ==
  \/ StartRun
  \/ get_or_create_asset
  \/ get_asset
  \/ Fetch
  \/ SaveExecute
  \/ SaveCommit
  \/ Finally

\* ---------------------------------------------------------------------------
\* fetch_ohlcv: state of one call
\* ---------------------------------------------------------------------------
VARIABLES
  variant,     \* whose fetch_ohlcv runs: "binance", "yahoo" or "stocks"
  provider,    \* how the upstream answers: "honest", "monotone", "arbitrary"
  holdings,    \* the candle timestamps an honest upstream holds
  start_date,  \* argument start_date
  end_date,    \* argument end_date
  fpc,         \* "idle", "page" (inside the pagination loop), "done", "raised"
  cursor,      \* the since argument of the next upstream call
  page,        \* the answer to the latest upstream call
  acc,         \* candles accumulated over the pages
  calls,       \* upstream calls made
  fullpages,   \* pages of PageSize candles received
  result,      \* the DataFrame returned
  downloaded,  \* equities: the answer of yf.download
  upstream_error  \* history: an upstream call raised

fetchVars == <<variant, provider, holdings, start_date, end_date, fpc, cursor,
               page, acc, calls, fullpages, result, downloaded, upstream_error>>

Ticks == 0..MaxTick

\* A DataFrame: its column labels and its rows.
Frame(cols, rows) == [cols |-> cols, rows |-> rows]

RequiredColumns == {"time", "open", "high", "low", "close", "volume"}

EmptyFrame == Frame({}, <<>>)

\* No answer of yf.download yet.
NoRaw == [tz |-> "naive", frame |-> EmptyFrame]

\* The values the upstream reports in its n-th answer, and for a held candle.
PayloadAt(n) == CHOOSE p \in Payloads : (p.open = 1) <=> (n % 2 = 0)

AscendingTicks(n) == {t \in SeqsUpTo(Ticks, n) : Ascending(t)}

\* The timestamps of a page of at most PageSize candles, oldest first.
PageTicks == AscendingTicks(PageSize)

\* The timestamps of the rows of one answer of yf.download.
RawTicks == AscendingTicks(MaxRows)

\* Ascending enumeration of a set of ticks.
RECURSIVE Sorted(_)
Sorted(S) ==
  IF S = {} THEN <<>>
  ELSE LET m == CHOOSE x \in S : \A y \in S : x <= y
       IN <<m>> \o Sorted(S \ {m})

Take(sq, n) == SubSeq(sq, 1, IF Len(sq) < n THEN Len(sq) ELSE n)

\* The pages the upstream may return to fetch(since, limit).
ProviderPages(kind, since, limit) ==
  IF kind = "honest"
  THEN {[i \in DOMAIN ts |-> Candle(ts[i], PayloadAt(ts[i]))] :
          ts \in {Take(Sorted({t \in holdings : t >= since}), limit)}}
  ELSE {[i \in DOMAIN ts |-> Candle(ts[i], PayloadAt(calls))] :
          ts \in {t \in PageTicks :
                    /\ Len(t) <= limit
                    /\ kind = "monotone" => \A i \in DOMAIN t : t[i] >= since
                    /\ (kind = "arbitrary" /\ fullpages >= MaxFullPages)
                          => Len(t) < limit}}

Returned(frame) == [raised |-> FALSE, frame |-> frame]

Raised == [raised |-> TRUE, frame |-> EmptyFrame]

\* The error is swallowed and the rows received so far are returned.
ReturnReceived(rows) == Returned(Frame(RequiredColumns, rows))

\* except Exception as e: raise RuntimeError(...) from e; the rows received
\* before the error are dropped with the call
ProviderFetchFailed(rows) == Raised

\* clip any records whose timestamp exceeds the requested end
ClipEnd(rows, end) == SelectSeq(rows, LAMBDA r : r.time <= end)

\* Keeps every row.
KeepDuplicates(rows) == rows

\* deduplicate by timestamp: the first row of each timestamp stays
RECURSIVE DropDuplicates(_)
DropDuplicates(rows) ==
  IF rows = <<>> THEN <<>>
  ELSE LET front == DropDuplicates(SubSeq(rows, 1, Len(rows) - 1))
           r == rows[Len(rows)]
       IN IF \E i \in DOMAIN front : front[i].time = r.time
          THEN front
          ELSE Append(front, r)

\* sort ascending by timestamp
RECURSIVE SortByTime(_)
SortByTime(rows) ==
  IF rows = <<>> THEN <<>>
  ELSE LET i == CHOOSE k \in DOMAIN rows :
                   /\ \A j \in DOMAIN rows : rows[k].time <= rows[j].time
                   /\ \A j \in DOMAIN rows : rows[j].time = rows[k].time => k <= j
           rest == [j \in 1..(Len(rows) - 1) |-> IF j < i THEN rows[j] ELSE rows[j + 1]]
       IN <<rows[i]>> \o SortByTime(rest)

\* BaseDataFetcher.validate_dataframe: TRUE when it returns, FALSE when it raises
validate_dataframe(frame) == RequiredColumns \subseteq frame.cols

\* After accumulation: clip, deduplicate, sort.
PostProcess(rows, end) == SortByTime(DropDuplicates(ClipEnd(rows, end)))

\* The cursor stays on the last candle.
NextCursorSame(last_ts) == last_ts

\* The cursor steps over one more unit than it should.
NextCursorSkip(last_ts) == last_ts + 2

\* cursor = last_ts + 1 time unit
NextCursor(last_ts) == last_ts + 1

FetchParked ==
  /\ variant = "binance"
  /\ provider = "honest"
  /\ holdings = {}
  /\ start_date = 0
  /\ end_date = 0
  /\ fpc = "idle"
  /\ cursor = 0
  /\ page = <<>>
  /\ acc = <<>>
  /\ calls = 0
  /\ fullpages = 0
  /\ result = EmptyFrame
  /\ downloaded = NoRaw
  /\ upstream_error = FALSE

RunParked ==
  /\ assets = {}
  /\ quotes = {}
  /\ session = "closed"
  /\ pending = {}
  /\ pipeline = "crypto"
  /\ symbols = <<>>
  /\ idx = 1
  /\ pc = "idle"
  /\ asset = NoAsset
  /\ df = <<>>
  /\ log = <<>>
  /\ prior = <<>>
  /\ save = NoSave
  /\ returned = Running
  /\ count = -1

\* The requested windows: every tick, and every tick but the first and last.
Windows == {<<0, MaxTick>>, <<1, MaxTick - 1>>}

InitFetch ==
  /\ RunParked
  /\ variant \in {"binance", "yahoo", "stocks"}
  /\ provider \in {"honest", "monotone", "arbitrary"}
  /\ variant # "binance" => provider = "arbitrary"
  /\ holdings \in SUBSET Ticks
  /\ provider # "honest" => holdings = {}
  /\ \E w \in Windows : start_date = w[1] /\ end_date = w[2]
  /\ fpc = "idle"
  /\ cursor = 0
  /\ page = <<>>
  /\ acc = <<>>
  /\ calls = 0
  /\ fullpages = 0
  /\ result = EmptyFrame
  /\ downloaded = NoRaw
  /\ upstream_error = FALSE

\* Crypto variant, step 1: cursor = start
BinanceStart ==
  /\ fpc = "idle" /\ variant = "binance"
  /\ cursor' = start_date
  /\ fpc' = "page"
  /\ UNCHANGED <<variant, provider, holdings, start_date, end_date, page, acc,
                 calls, fullpages, result, downloaded, upstream_error>>

\* The loop is left: post-process, validate, return.
BinanceReturn(rows) ==
  LET out == Frame(RequiredColumns, PostProcess(rows, end_date))
  IN /\ result' = out
     /\ fpc' = IF validate_dataframe(out) THEN "done" ELSE "raised"
     /\ UNCHANGED cursor

\* Crypto variant, steps 2 to 7: one upstream call and what follows it
BinancePage ==
  /\ fpc = "page"
  /\ calls' = calls + 1
  /\ \/ /\ upstream_error' = TRUE
        /\ LET out == ProviderFetchFailed(acc)
           IN /\ result' = out.frame
              /\ fpc' = IF out.raised THEN "raised" ELSE "done"
        /\ UNCHANGED <<cursor, page, acc, fullpages>>
     \/ /\ page' \in ProviderPages(provider, cursor, PageSize)
        /\ UNCHANGED upstream_error
        /\ acc' = acc \o page'
        /\ fullpages' = IF Len(page') = PageSize THEN fullpages + 1 ELSE fullpages
        /\ IF page' = <<>>
           THEN BinanceReturn(acc')
           ELSE LET last_ts == page'[Len(page')].time
                IN IF last_ts >= end_date \/ Len(page') < PageSize
                   THEN BinanceReturn(acc')
                   ELSE /\ cursor' = NextCursor(last_ts)
                        /\ fpc' = "page"
                        /\ UNCHANGED result
  /\ UNCHANGED <<variant, provider, holdings, start_date, end_date, downloaded>>

\* ---------------------------------------------------------------------------
\* Equities fetch_ohlcv: what yf.download hands back, after reset_index
\* ---------------------------------------------------------------------------
IndexLabels == {"Date", "Datetime", "index"}

ValueLabels == {"Open", "High", "Low", "Close", "Volume"}

\* A timezone-naive index, a UTC index, an index one unit east of UTC.
Zones == {"naive", "UTC", "local"}

ZoneOffset(tz) == IF tz = "local" THEN 1 ELSE 0

RawValue(label, p) ==
  CASE label = "Open" -> p.open
    [] label = "High" -> p.high
    [] label = "Low" -> p.low
    [] label = "Close" -> p.close
    [] label = "Volume" -> p.volume

RawRow(index, labels, wall, p) ==
  [c \in {index} \cup labels |-> IF c = index THEN wall ELSE RawValue(c, p)]

\* The answers of the library: any rows, inside the asked range or not, with
\* every label, with no Volume, or with no Close.
RawFrames ==
  {[tz |-> tz,
    frame |-> Frame({index} \cup labels,
                    [i \in DOMAIN ts |-> RawRow(index, labels, ts[i], PayloadAt(Len(ts)))])] :
      tz \in Zones, index \in IndexLabels,
      labels \in {ValueLabels, ValueLabels \ {"Volume"}, ValueLabels \ {"Close"}},
      ts \in RawTicks}

\* df.rename(columns={...})
Canonical(label) ==
  CASE label \in {"Date", "Datetime"} -> "time"
    [] label = "Open" -> "open"
    [] label = "High" -> "high"
    [] label = "Low" -> "low"
    [] label = "Close" -> "close"
    [] label = "Volume" -> "volume"
    [] OTHER -> label

Rename(frame) ==
  Frame({Canonical(c) : c \in frame.cols},
        [i \in DOMAIN frame.rows |->
           [c \in {Canonical(l) : l \in frame.cols} |->
              frame.rows[i][CHOOSE l \in frame.cols : Canonical(l) = c]]])

\* tz_localize('UTC') on a naive column, tz_convert('UTC') on an aware one
ToUtc(frame, tz) ==
  IF "time" \in frame.cols
  THEN Frame(frame.cols,
             [i \in DOMAIN frame.rows |->
                [frame.rows[i] EXCEPT !["time"] = @ - ZoneOffset(tz)]])
  ELSE frame

\* df[df['time'] >= start_date], then df[df['time'] <= end_date]
StrictFilter(frame, start, end) ==
  Frame(frame.cols, SelectSeq(frame.rows, LAMBDA r : r["time"] >= start /\ r["time"] <= end))

\* if 'volume' not in df.columns: df['volume'] = 0.0
DefaultVolume(frame) ==
  IF "volume" \in frame.cols
  THEN frame
  ELSE Frame(frame.cols \cup {"volume"},
             [i \in DOMAIN frame.rows |->
                [c \in frame.cols \cup {"volume"} |->
                   IF c = "volume" THEN 0 ELSE frame.rows[i][c]]])

\* df[available_cols]
Select(frame, cols) ==
  Frame(cols, [i \in DOMAIN frame.rows |-> [c \in cols |-> frame.rows[i][c]]])

\* yahoo/yfinance_fetcher.py, from the answer of yf.download to the return
YahooNormalize(raw, start, end) ==
  IF raw.frame.rows = <<>> THEN Returned(EmptyFrame)
  ELSE LET utc == ToUtc(Rename(raw.frame), raw.tz)
       IN IF "time" \notin utc.cols THEN Raised
          ELSE LET filled == DefaultVolume(StrictFilter(utc, start, end))
                   out == Select(filled, RequiredColumns \cap filled.cols)
               IN IF validate_dataframe(out) THEN Returned(out) ELSE Raised

\* stocks/yfinance_fetcher.py, from the answer of yf.download to the return
StocksNormalize(raw) ==
  IF raw.frame.rows = <<>> THEN Returned(EmptyFrame)
  ELSE LET filled == DefaultVolume(ToUtc(Rename(raw.frame), raw.tz))
       IN IF ~(RequiredColumns \subseteq filled.cols) THEN Raised
          ELSE LET out == Select(filled, RequiredColumns)
               IN IF validate_dataframe(out) THEN Returned(out) ELSE Raised

\* YahooFinanceFetcher.fetch_ohlcv of either module
EquitiesFetch ==
  /\ fpc = "idle" /\ variant \in {"yahoo", "stocks"}
  /\ calls' = calls + 1
  /\ \/ /\ upstream_error' = TRUE
        /\ LET out == ProviderFetchFailed(<<>>)
           IN /\ result' = out.frame
              /\ fpc' = IF out.raised THEN "raised" ELSE "done"
        /\ UNCHANGED downloaded
     \/ /\ downloaded' \in RawFrames
        /\ UNCHANGED upstream_error
        /\ LET out == IF variant = "yahoo"
                      THEN YahooNormalize(downloaded', start_date, end_date)
                      ELSE StocksNormalize(downloaded')
           IN /\ result' = out.frame
              /\ fpc' = IF out.raised THEN "raised" ELSE "done"
  /\ UNCHANGED <<variant, provider, holdings, start_date, end_date, cursor, page,
                 acc, fullpages>>

NextFetch ==
  \/ BinanceStart
  \/ BinancePage
  \/ EquitiesFetch

\* ---------------------------------------------------------------------------
\* Table assets shared by concurrent ingestion runs and a seeding run
\* ---------------------------------------------------------------------------
VARIABLES
  workers,   \* per ingestion run: where its get_or_create_asset stands
  seeding    \* the seeding run: position, config items left, staged rows

sharedVars == <<workers, seeding>>

\* Two crypto ingestion runs work on the one database.
Resolvers == {"run1", "run2"}

ResolverIdle == [pc |-> "idle", symbol |-> "", session |-> "active", last |-> "none"]

\* Entries of assets.yaml: an instrument the crypto runs also resolve, an
\* equity, and an entry whose asset class is no member of AssetClass.
SeedItems ==
  { [symbol |-> "A", exchange |-> "BINANCE", asset_class |-> "CRYPTO"],
    [symbol |-> "B", exchange |-> "NASDAQ", asset_class |-> "STOCK"],
    [symbol |-> "B", exchange |-> "BINANCE", asset_class |-> "EQUITY"] }

AssetClasses == {"CRYPTO", "STOCK", "FOREX", "COMMODITY"}

SeedConfigs == SeqsUpTo(SeedItems, MaxSeedItems)

SeedingIdle == [pc |-> "idle", config |-> <<>>, runs |-> 0, todo |-> <<>>, staged |-> <<>>]

\* A table that accepts any row.
NoConstraint(tbl, rows) == FALSE

\* UniqueConstraint("symbol", "exchange"): the rows to insert collide with a
\* stored row or with one another.
uq_asset_symbol_exchange(tbl, rows) ==
  \/ \E i \in DOMAIN rows : \E a \in tbl :
       a.symbol = rows[i].symbol /\ a.exchange = rows[i].exchange
  \/ \E i, j \in DOMAIN rows :
       i < j /\ rows[i].symbol = rows[j].symbol /\ rows[i].exchange = rows[j].exchange

\* INSERT of the staged objects, ids in the order of session.add
RECURSIVE InsertAssets(_, _)
InsertAssets(tbl, rows) ==
  IF rows = <<>> THEN tbl
  ELSE InsertAssets(tbl \cup {AssetRow(MaxId(tbl) + 1, rows[1].symbol, rows[1].exchange,
                                       rows[1].asset_class, TRUE)},
                    Tail(rows))

SharedParked ==
  /\ workers = [w \in Resolvers |-> ResolverIdle]
  /\ seeding = SeedingIdle

\* get_or_create_asset of run w, up to the answer of its query
ResolveQuery(w) ==
  /\ workers[w].pc = "idle"
  /\ \E sym \in SymbolNames :
       LET found == {a \in assets : a.symbol = sym /\ a.exchange = "BINANCE"}
       IN workers' = [workers EXCEPT ![w] =
            IF workers[w].session = "failed" \/ Cardinality(found) > 1
            THEN [@ EXCEPT !.symbol = sym, !.last = "raised"]
            ELSE IF found # {}
            THEN [@ EXCEPT !.symbol = sym, !.last = "returned"]
            ELSE [@ EXCEPT !.symbol = sym, !.pc = "add"]]
  /\ UNCHANGED <<assets, seeding>>

\* get_or_create_asset of run w: session.add(new_asset); session.commit()
ResolveCommit(w) ==
  /\ workers[w].pc = "add"
  /\ LET new == NewCryptoAsset(assets, workers[w].symbol)
     IN IF uq_asset_symbol_exchange(assets, <<new>>)
        THEN /\ workers' = [workers EXCEPT ![w] =
                  [@ EXCEPT !.pc = "idle", !.session = "failed", !.last = "raised"]]
             /\ UNCHANGED assets
        ELSE /\ workers' = [workers EXCEPT ![w] = [@ EXCEPT !.pc = "idle", !.last = "returned"]]
             /\ assets' = assets \cup {new}
  /\ UNCHANGED seeding

\* seed_master_data up to the first upsert_asset: load_config(), SessionLocal()
SeedStart ==
  /\ seeding.pc = "idle"
  /\ \E config \in SeedConfigs :
       seeding' = [pc |-> "upsert", config |-> config, runs |-> 1, todo |-> config,
                   staged |-> <<>>]
  /\ UNCHANGED <<assets, workers>>

\* seed_master_data started once more on the same assets.yaml
SeedAgain ==
  /\ seeding.pc \in {"done", "exited"}
  /\ seeding.runs < MaxSeedRuns
  /\ seeding' = [seeding EXCEPT !.pc = "upsert", !.runs = @ + 1, !.todo = seeding.config,
                                !.staged = <<>>]
  /\ UNCHANGED <<assets, workers>>

\* upsert_asset(session, item): the session does not flush before the query
upsert_asset ==
  /\ seeding.pc = "upsert" /\ seeding.todo # <<>>
  /\ LET item == Head(seeding.todo)
         existing == {a \in assets : a.symbol = item.symbol /\ a.exchange = item.exchange}
     IN seeding' = [seeding EXCEPT
          !.todo = Tail(@),
          !.staged = IF item.asset_class \notin AssetClasses \/ existing # {}
                     THEN @
                     ELSE Append(@, item)]
  /\ UNCHANGED <<assets, workers>>

\* session.commit() of the seeding run; on an error session.rollback() and
\* sys.exit(1)
SeedCommit ==
  /\ seeding.pc = "upsert" /\ seeding.todo = <<>>
  /\ IF uq_asset_symbol_exchange(assets, seeding.staged)
     THEN /\ seeding' = [seeding EXCEPT !.pc = "exited", !.staged = <<>>]
          /\ UNCHANGED assets
     ELSE /\ seeding' = [seeding EXCEPT !.pc = "done", !.staged = <<>>]
          /\ assets' = InsertAssets(assets, seeding.staged)
  /\ UNCHANGED workers

NextShared ==
  \/ \E w \in Resolvers : ResolveQuery(w)
  \/ \E w \in Resolvers : ResolveCommit(w)
  \/ SeedStart
  \/ upsert_asset
  \/ SeedCommit

\* ---------------------------------------------------------------------------
\* SentimentAnalyzer.analyze
\* ---------------------------------------------------------------------------
VARIABLES
  text,        \* the argument of analyze
  prompt,      \* the text the LLM client was called with
  reply,       \* what client.generate answered
  apc,         \* position of the call
  outcome,     \* what analyze handed back
  llm_calls    \* number of client.generate calls

sentimentVars == <<text, prompt, reply, apc, outcome, llm_calls>>

\* Scores are counted in halves: Unit is the float 1.0.
Unit == 2

Chars == {" ", "x"}

Texts == SeqsUpTo(Chars, MaxText)

\* str.strip(): leading and trailing whitespace removed
RECURSIVE LStrip(_)
LStrip(t) == IF t # <<>> /\ Head(t) = " " THEN LStrip(Tail(t)) ELSE t

RECURSIVE RStrip(_)
RStrip(t) ==
  IF t # <<>> /\ t[Len(t)] = " " THEN RStrip(SubSeq(t, 1, Len(t) - 1)) ELSE t

Strip(t) == RStrip(LStrip(t))

\* not text or not text.strip()
IsBlank(t) == t = <<>> \/ Strip(t) = <<>>

Fields == {"sentiment_score", "impact_score", "confidence"}

\* Values a JSON object of the LLM can hold under a key: a number, a string
\* that spells a number, a string that does not, null, an integer too large
\* for a float, NaN; or the key is absent.
Numbers == (0 - MaxScore)..MaxScore

RawScores ==
  [kind : {"number", "numeric_text"}, v : Numbers]
    \cup [kind : {"text", "null", "huge", "nan", "missing"}, v : {0}]

NoReply == [kind |-> "pending"]

Replies ==
  [kind : {"raises", "None", "empty", "list"}]
    \cup [kind : {"dict"}, data : [Fields -> RawScores]]

Float(n) == [error |-> "", nan |-> FALSE, v |-> n]

NaN == [error |-> "", nan |-> TRUE, v |-> 0]

FloatError(e) == [error |-> e, nan |-> FALSE, v |-> 0]

\* float(data.get(key, 0.0))
ToFloat(raw) ==
  CASE raw.kind \in {"number", "numeric_text"} -> Float(raw.v)
    [] raw.kind = "missing" -> Float(0)
    [] raw.kind = "nan" -> NaN
    [] raw.kind = "text" -> FloatError("ValueError")
    [] raw.kind = "null" -> FloatError("TypeError")
    [] raw.kind = "huge" -> FloatError("OverflowError")

\* x < y on floats: every comparison with NaN is false
Less(x, y) == ~x.nan /\ ~y.nan /\ x.v < y.v

\* min(a, b) and max(a, b) of Python: the first argument unless the second
\* is strictly smaller (greater)
PyMin(a, b) == IF Less(b, a) THEN b ELSE a

PyMax(a, b) == IF Less(a, b) THEN b ELSE a

\* a parser that stores the value as the LLM gave it
NoClamp(lo, hi, x) == x

\* max(lo, min(hi, x))
Clamp(lo, hi, x) == PyMax(Float(lo), PyMin(Float(hi), x))

LowerBound(f) == IF f = "sentiment_score" THEN 0 - Unit ELSE 0

NoResult == [kind |-> "pending"]

ResultNone == [kind |-> "None"]

AnalyzeRaised(e) == [kind |-> "raised", error |-> e]

SentimentResult(d) ==
  [kind |-> "SentimentResult",
   scores |-> [f \in Fields |-> Clamp(LowerBound(f), Unit, ToFloat(d[f]))]]

\* an analyze without the try: the exception reaches the caller
Propagate(e) == AnalyzeRaised(e)

\* except Exception as e: logger.exception(...); return None
OnAnalyzeError(e) == ResultNone

\* _parse_response(data): ValueError and TypeError of the conversions are
\* caught inside, any other exception leaves it
ParseErrors(d) == {ToFloat(d[f]).error : f \in Fields} \ {""}

FirstError(d) ==
  IF ToFloat(d["sentiment_score"]).error # "" THEN ToFloat(d["sentiment_score"]).error
  ELSE IF ToFloat(d["impact_score"]).error # "" THEN ToFloat(d["impact_score"]).error
  ELSE ToFloat(d["confidence"]).error

_parse_response(d) ==
  IF ParseErrors(d) = {} THEN SentimentResult(d)
  ELSE IF FirstError(d) \in {"ValueError", "TypeError"} THEN ResultNone
  ELSE AnalyzeRaised(FirstError(d))

\* the try block of analyze around the client call and the parsing
Guarded(res) == IF res.kind = "raised" THEN OnAnalyzeError(res.error) ELSE res

SentimentParked ==
  /\ text = <<>>
  /\ prompt = <<>>
  /\ reply = NoReply
  /\ apc = "idle"
  /\ outcome = NoResult
  /\ llm_calls = 0

\* analyze(text) up to the client call
AnalyzeStart ==
  /\ apc = "idle"
  /\ \E t \in Texts :
       /\ text' = t
       /\ IF IsBlank(t)
          THEN apc' = "returned" /\ outcome' = ResultNone /\ prompt' = prompt
          ELSE apc' = "generate" /\ outcome' = outcome /\ prompt' = Strip(t)
  /\ UNCHANGED <<reply, llm_calls>>

\* self.client.generate(...) and what analyze does with the answer
AnalyzeGenerate ==
  /\ apc = "generate"
  /\ llm_calls' = llm_calls + 1
  /\ \E r \in Replies :
       /\ reply' = r
       /\ outcome' =
            Guarded(CASE r.kind = "raises" -> AnalyzeRaised("Exception")
                      [] r.kind \in {"None", "empty"} -> ResultNone
                      [] r.kind = "list" -> AnalyzeRaised("AttributeError")
                      [] r.kind = "dict" -> _parse_response(r.data))
  /\ apc' = "returned"
  /\ UNCHANGED <<text, prompt>>

NextAnalyze == AnalyzeStart \/ AnalyzeGenerate

\* What a run holds besides table assets.
runLocals == <<quotes, session, pending, pipeline, symbols, idx, pc, asset, df,
               log, prior, save, returned, count>>

InitShared == RunParked /\ FetchParked /\ SharedParked /\ SentimentParked

\* seed_master_data alone on the database, run after run
NextSeed ==
  \/ SeedStart
  \/ upsert_asset
  \/ SeedCommit
  \/ SeedAgain

vars == <<runVars, fetchVars, sharedVars, sentimentVars>>

Init == InitRun /\ FetchParked /\ SharedParked /\ SentimentParked

Next == NextRun /\ UNCHANGED <<fetchVars, sharedVars, sentimentVars>>

Spec == Init /\ [][Next]_vars

\* the interpreter runs run_etl to its end: every call returns or raises
SpecLive == Spec /\ WF_vars(Next)

\* A call of fetch_ohlcv, no run and no seeding under way.
InitOfFetch == InitFetch /\ SharedParked /\ SentimentParked

SpecFetch == InitOfFetch /\ [][NextFetch /\ UNCHANGED <<runVars, sharedVars, sentimentVars>>]_vars

\* One call of fetch_ohlcv runs to its end: every step it can take is taken.
SpecFetchLive == SpecFetch /\ WF_vars(NextFetch /\ UNCHANGED <<runVars, sharedVars, sentimentVars>>)

\* One call of save_market_data and the end of the run that made it.
InitOfSave == InitSave /\ FetchParked /\ SharedParked /\ SentimentParked

SpecSave == InitOfSave /\ [][NextSave /\ UNCHANGED <<fetchVars, sharedVars, sentimentVars>>]_vars

\* Ingestion runs and a seeding run interleave on table assets.
SpecShared == InitShared /\ [][NextShared /\ UNCHANGED <<runLocals, fetchVars, sentimentVars>>]_vars

\* A call of SentimentAnalyzer.analyze, nothing else under way.
SpecAnalyze ==
  InitShared /\ [][NextAnalyze /\ UNCHANGED <<runVars, fetchVars, sharedVars>>]_vars

\* Seeding runs on each initial store, no ingestion run under way.
SpecSeed == Init /\ [][NextSeed /\ UNCHANGED <<runLocals, fetchVars, sentimentVars>>]_vars

\* ---------------------------------------------------------------------------
\* Properties of the run
\* ---------------------------------------------------------------------------
Last(sq) == sq[Len(sq)]

\* The step is the successful return of save_market_data.
CommitSucceeds ==
  /\ pc = "commit"
  /\ Len(log') = Len(log) + 1
  /\ Last(log').outcome = "success"

\* The step is save_market_data raising from execute or from commit.
SaveFails ==
  /\ pc \in {"execute", "commit"}
  /\ Len(log') = Len(log) + 1
  /\ Last(log').outcome = "failed"

\* The store holds, for every row of df, a row of this asset with its values.
BatchVisible(table, asset_id, frame) ==
  \A i \in DOMAIN frame :
     \E q \in table :
        /\ q.asset_id = asset_id /\ q.time = frame[i].time
        /\ q.open = frame[i].open /\ q.high = frame[i].high
        /\ q.low = frame[i].low /\ q.close = frame[i].close
        /\ q.volume = frame[i].volume

\* The latest save_market_data call returned normally and its effects are in
\* the store.
LatestSaveCommitted ==
  /\ pc \in {"resolve", "finally", "done"}
  /\ log # <<>>
  /\ Last(log).outcome = "success"

\* C1: a save_market_data call with the batch of the committed call right
\* before it (same instrument, same records) leaves market_quotes exactly as
\* that call left it: same rows, same values, same row count.
C1_UpsertIdempotent ==
  [][(CommitSucceeds /\ save.repeat) => quotes' = quotes]_vars

C1_Witness ==
  /\ LatestSaveCommitted
  /\ save.repeat
  /\ quotes # {}

\* C2: when save_market_data returns normally for a non-empty df, the store
\* holds for every record a row keyed (asset_id, time) with the record's
\* open/high/low/close/volume, whether the key existed before or not.
C2_UpsertResult ==
  [][CommitSucceeds => (df # <<>> /\ BatchVisible(quotes', asset.id, df))]_vars

C2_Witness ==
  /\ LatestSaveCommitted
  /\ save.overwrote
  /\ save.inserted

\* C3: in a run where the only errors are fetch errors, every symbol whose
\* own fetch did not raise ends with the outcome of its own data (never
\* failed), a symbol whose fetch raised changes no quote row, and the loop
\* goes through every symbol of the list.
OnlyFetchFaults == \A i \in DOMAIN log : log[i].fault \in {"none", "fetch"}

FetchRaises ==
  /\ pc = "fetch"
  /\ Len(log') = Len(log) + 1
  /\ Last(log').fault = "fetch"

C3_FetchIsolation ==
  /\ [](OnlyFetchFaults =>
          /\ \A i \in DOMAIN log : log[i].fault = "none" => log[i].outcome # "failed"
          /\ pc \in {"finally", "done"} => Len(log) = Len(symbols))
  /\ [][FetchRaises => (quotes' = quotes /\ pending' = pending)]_vars

C3_Witness ==
  /\ pc = "done"
  /\ symbols = <<"A", "B", "C">>
  /\ Len(log) = 3
  /\ log[1].outcome = "success"
  /\ log[2].fault = "fetch"
  /\ log[3].outcome = "success"

\* C4: a symbol that meets no error of its own (its resolution, fetch and
\* upsert are given no fault) does not end as failed, whatever store error an
\* earlier symbol of the same run met.
C4_StoreIsolation ==
  \A i \in DOMAIN log : log[i].fault = "none" => log[i].outcome # "failed"

\* C5: market_quotes as readers see it changes only by a save_market_data
\* call that returns normally, and then the whole batch is visible; a call
\* that raises from execute or commit leaves it unchanged, also afterwards.
C5_BatchAtomic ==
  [][/\ SaveFails => quotes' = quotes
     /\ quotes' # quotes => (CommitSucceeds /\ BatchVisible(quotes', asset.id, df))]_vars

C5_Witness ==
  /\ pc \in {"resolve", "finally", "done"}
  /\ log # <<>>
  /\ Last(log).fault = "commit"
  /\ save.inserted

\* C6: market_quotes never holds two rows with the same (asset_id, time).
UniqueKeys(table) == \A q1 \in table : \A q2 \in table : SameKey(q1, q2) => q1 = q2

C6_QuoteKeyUnique == UniqueKeys(quotes) /\ UniqueKeys(pending)

C6_Witness ==
  /\ LatestSaveCommitted
  /\ save.overwrote
  /\ Cardinality(quotes) >= 2

\* The table holds a row with the key and the values of record r.
Stored(table, r) ==
  \E q \in table :
     /\ SameKey(q, r)
     /\ q.open = r.open /\ q.high = r.high /\ q.low = r.low
     /\ q.close = r.close /\ q.volume = r.volume

\* The committing save follows a committed save of the same instrument.
SecondSave == CommitSucceeds /\ prior # <<>> /\ prior[1].asset_id = asset.id

\* C19: when a save stores R1 and a later save stores R2 for the same
\* instrument, afterwards every key of R2 holds R2's values, every key of R1
\* that is not in R2 still holds R1's values, and no other key changed.
C19_ConvergesOnOverlap ==
  [][SecondSave =>
       LET R2 == Records(asset.id, df)
       IN /\ \A j \in DOMAIN R2 : Stored(quotes', R2[j])
          /\ \A i \in DOMAIN prior :
               (\A j \in DOMAIN R2 : ~SameKey(prior[i], R2[j])) => Stored(quotes', prior[i])
          /\ \A q \in quotes :
               (\A j \in DOMAIN R2 : ~SameKey(q, R2[j])) => q \in quotes'
          /\ \A q \in quotes' : q \in quotes \/ \E j \in DOMAIN R2 : SameKey(q, R2[j])]_vars

C19_Witness ==
  /\ LatestSaveCommitted
  /\ save.overwrote
  /\ prior # <<>>
  /\ \E q \in quotes :
       /\ q.asset_id = prior[1].asset_id
       /\ q.created_at = "run"
       /\ \A i \in DOMAIN prior : ~SameKey(q, prior[i])
       /\ \E i \in DOMAIN prior : prior[i].close # q.close

\* C20: save_market_data called with an empty frame returns 0, issues no
\* statement and no commit, and leaves every stored row unchanged.
C20_EmptySaveNoOp ==
  [][(pc = "execute" /\ df = <<>>) =>
       /\ count' = 0
       /\ session' = session /\ pending' = pending /\ save' = save
       /\ quotes' = quotes /\ assets' = assets
       /\ pc' # "commit"
       /\ Last(log') = Entry("none", "success")]_vars

C20_Witness ==
  /\ pc \in {"finally", "done"}
  /\ count = 0
  /\ session = "failed"
  /\ log = <<Entry("none", "success")>>
  /\ quotes # {}
  /\ save = NoSave

\* ---------------------------------------------------------------------------
\* Properties of the resolvers
\* ---------------------------------------------------------------------------
\* The resolver of the running pipeline finds no row for the current symbol.
NoMatch ==
  /\ pc = "resolve"
  /\ IF pipeline = "crypto"
     THEN \A a \in assets : ~(a.symbol = symbols[idx] /\ a.exchange = "BINANCE")
     ELSE \A a \in assets : a.symbol # symbols[idx]

\* C11: when no instrument row matches the symbol, the crypto resolver that
\* returns has inserted exactly one row (that symbol, exchange BINANCE, asset
\* class CRYPTO, active) and returns it, and never inserts more than that
\* row; the equities resolver inserts nothing, leaves the instruments table
\* unchanged and no fetch follows.
C11_ResolverPolicy ==
  [][NoMatch =>
       IF pipeline = "crypto"
       THEN /\ pc' = "fetch" =>
                 /\ asset' \notin assets
                 /\ assets' = assets \cup {asset'}
                 /\ asset'.symbol = symbols[idx]
                 /\ asset'.exchange = "BINANCE"
                 /\ asset'.asset_class = "CRYPTO"
                 /\ asset'.is_active
            /\ assets \subseteq assets'
            /\ Cardinality(assets' \ assets) <= 1
            /\ \A a \in assets' \ assets :
                 a = [a EXCEPT !.symbol = symbols[idx], !.exchange = "BINANCE",
                               !.asset_class = "CRYPTO", !.is_active = TRUE]
       ELSE /\ assets' = assets
            /\ pc' # "fetch"
            /\ asset' = NoAsset]_vars

C11_Witness ==
  /\ pipeline = "crypto" /\ pc = "fetch"
  /\ asset \in assets
  /\ asset.exchange = "BINANCE" /\ asset.asset_class = "CRYPTO" /\ asset.is_active
  /\ asset.id = 5
  /\ Cardinality(assets) = 5

\* C12: get_or_create_asset returns an instrument for every symbol, whether
\* or not a row existed, also when two runs resolve one unknown symbol and
\* both see it absent before either commits: no resolution raises.
C12_ResolutionNeverFails == \A w \in Resolvers : workers[w].last # "raised"

\* The pair (symbol, exchange) identifies at most one row.
UniqueNaturalKey(tbl) ==
  \A a, b \in tbl : (a.symbol = b.symbol /\ a.exchange = b.exchange) => a = b

\* C13: in every reachable state, whatever the interleaving of crypto
\* resolutions of the ingestion runs and of a seeding run, no two rows of
\* assets share (symbol, exchange).
C13_NaturalKeyUnique == UniqueNaturalKey(assets)

C13_Witness ==
  /\ \E w \in Resolvers : workers[w].last = "raised" /\ workers[w].symbol = "A"
  /\ \E w \in Resolvers : workers[w].last = "returned"
  /\ seeding.pc = "done"
  /\ Cardinality(assets) >= 3

\* The equities run stands at a symbol that has no instrument row or an
\* inactive one, on a session that can run the query.
PolicyRejects ==
  /\ pc = "resolve" /\ pipeline = "yahoo" /\ Usable(session)
  /\ Cardinality({a \in assets : a.symbol = symbols[idx]}) <= 1
  /\ \A a \in assets : a.symbol = symbols[idx] => ~a.is_active

\* C16: when the equities run finds no instrument for the symbol, or an
\* inactive one, the symbol ends as a skip unless the query itself raises:
\* no fetch and no store write are made for it, nothing is stored or staged,
\* and the run goes on with the next symbol.
C16_SkipWithoutEffect ==
  [][PolicyRejects =>
       /\ pc' = Continue(idx, Len(symbols))
       /\ idx' = idx + 1
       /\ Len(log') = Len(log) + 1
       /\ Last(log').fault = "none" => Last(log').outcome = "skipped"
       /\ Last(log').fault # "none" => Last(log').fault = "resolve"
       /\ assets' = assets /\ quotes' = quotes /\ pending' = pending
       /\ df' = <<>> /\ asset' = NoAsset]_vars

C16_Witness ==
  /\ pipeline = "yahoo" /\ pc = "done"
  /\ assets = SeededAssets
  /\ symbols = <<"B", "C", "C">>
  /\ log = <<Entry("none", "success"), Entry("none", "skipped"), Entry("none", "skipped")>>
  /\ \A q \in quotes : q.asset_id # 3

\* ---------------------------------------------------------------------------
\* Properties of the orchestrator's error handling
\* ---------------------------------------------------------------------------
\* The positions of run_etl; "escaped" is an exception leaving run_etl.
InsideRun == {"idle", "resolve", "fetch", "execute", "commit", "finally", "done"}

SymbolFails == Len(log') = Len(log) + 1 /\ Last(log').outcome = "failed"

\* C14: whatever the symbols and whichever of resolution, fetch (validation
\* included) and persistence raise, no exception leaves run_etl: each raise
\* ends in the except clause, the loop goes on to the next symbol or to the
\* finally clause, and the finally clause ends the run normally.
C14_NoErrorEscapes ==
  /\ [](pc \in InsideRun)
  /\ [][SymbolFails => pc' = Continue(idx, Len(symbols))]_vars
  /\ [][pc = "finally" => pc' = "done"]_vars

C14_Witness ==
  /\ pc = "done"
  /\ Len(log) = 3
  /\ \A i \in DOMAIN log : log[i].outcome = "failed"
  /\ {log[i].fault : i \in DOMAIN log} = {"fetch", "commit", "execute"}

Outcomes == {"success", "no_data", "skipped", "failed"}

\* C15: a run over symbols s1..sn hands back a report with exactly one
\* outcome per input symbol, each one of success, no_data, skipped, failed.
C15_OutcomeReport ==
  pc = "done" =>
    /\ returned.kind = "report"
    /\ Len(returned.outcomes) = Len(symbols)
    /\ \A i \in DOMAIN returned.outcomes : returned.outcomes[i] \in Outcomes

\* ---------------------------------------------------------------------------
\* Properties of fetch_ohlcv
\* ---------------------------------------------------------------------------
Returns == fpc \in {"done", "raised"}

Paginated == variant = "binance"

\* The upstream answers fetch(since, ...) with candles at or after since only.
SinceRespected == provider \in {"honest", "monotone"}

RowTimes(rows) == {rows[i].time : i \in DOMAIN rows}

\* rows is pages without the rows past end, one row for each timestamp, in
\* strictly ascending order.
ClippedDedupedSorted(rows, pages, end) ==
  /\ StrictlyAscending(rows)
  /\ \A i \in DOMAIN rows : rows[i].time <= end /\ \E j \in DOMAIN pages : pages[j] = rows[i]
  /\ \A j \in DOMAIN pages : pages[j].time <= end => pages[j].time \in RowTimes(rows)

\* C7: against an upstream that serves pages of PageSize candles and
\* eventually a shorter one, the paginated fetch_ohlcv returns, and what it
\* returns is the concatenation of the pages received without the rows past
\* end_date, with one row per timestamp, in strictly ascending order.
C7_PaginationResult ==
  /\ [](Paginated /\ fpc = "done" =>
          /\ validate_dataframe(result)
          /\ ClippedDedupedSorted(result.rows, acc, end_date))
  /\ <>(Paginated => Returns)

C7_Witness ==
  /\ Paginated /\ provider = "arbitrary" /\ fpc = "done"
  /\ calls >= 2 /\ fullpages >= 1
  /\ \E i \in DOMAIN acc : acc[i].time > end_date
  /\ \E i, j \in DOMAIN acc : i < j /\ acc[i].time = acc[j].time
  /\ result.rows # <<>>

\* The window has this many units; a fetch over an empty window still makes
\* one call.
WindowUnits == IF end_date >= start_date THEN end_date - start_date + 1 ELSE 1

\* C8: every upstream call after the first uses since = timestamp of the last
\* candle of the page before + 1; when the upstream returns only candles at
\* or after since, the cursor strictly increases from call to call, the
\* calls number at most the units of the window, and fetch_ohlcv returns,
\* full pages and repeated boundary candles notwithstanding.
C8_CursorAdvances ==
  /\ [][(fpc = "page" /\ fpc' = "page" /\ calls' = calls + 1) =>
          /\ cursor' = page'[Len(page')].time + 1
          /\ SinceRespected => cursor' > cursor]_vars
  /\ [](Paginated /\ SinceRespected => calls <= WindowUnits)
  /\ <>(Paginated /\ SinceRespected => Returns)

C8_Witness ==
  /\ Paginated /\ provider = "monotone" /\ fpc = "done"
  /\ calls >= 3 /\ fullpages = calls
  /\ \E i \in DOMAIN acc : i + 1 \in DOMAIN acc /\ acc[i].time = acc[i + 1].time

\* The candles an honest upstream holds inside the window, in order.
HeldInWindow ==
  LET ts == Sorted({t \in holdings : t >= start_date /\ t <= end_date})
  IN [i \in DOMAIN ts |-> Candle(ts[i], PayloadAt(ts[i]))]

\* C9: when the upstream holds N candles inside the window and serves at
\* most PageSize of them per call, the fetch returns exactly those N candles,
\* each once, none missing between pages.
C9_PaginationComplete ==
  (Paginated /\ provider = "honest" /\ fpc = "done") => result.rows = HeldInWindow

C9_Witness ==
  /\ Paginated /\ provider = "honest" /\ fpc = "done"
  /\ Len(HeldInWindow) > 2 * PageSize
  /\ calls >= 3
  /\ result.rows = HeldInWindow

\* C10: whichever variant runs and whatever rows the upstream returns,
\* fetch_ohlcv(start_date, end_date) returns no row before start_date and no
\* row after end_date.
C10_WindowClipped ==
  fpc = "done" =>
    \A i \in DOMAIN result.rows :
      result.rows[i]["time"] >= start_date /\ result.rows[i]["time"] <= end_date

\* C17: when an upstream call of a fetch raises, on the first page or on a
\* page after earlier pages were received, fetch_ohlcv raises to its caller
\* and returns no record: nothing of the earlier pages reaches the caller.
C17_FetchFailureAborts ==
  upstream_error => (fpc = "raised" /\ result = EmptyFrame)

C17_Witness ==
  /\ Paginated /\ upstream_error /\ fpc = "raised"
  /\ calls >= 2 /\ acc # <<>>
  /\ result.rows = <<>>

\* The labels of the downloaded frame name every required field.
DownloadComplete == RequiredColumns \subseteq {Canonical(c) : c \in downloaded.frame.cols}

\* C18: every frame fetch_ohlcv returns, on every return path, the empty
\* results included, has the required fields; when the upstream answer lacks
\* a required field the call raises instead of returning or filling it.
C18_ValidatedBeforeReturn ==
  fpc = "done" =>
    /\ validate_dataframe(result)
    /\ ~Paginated => DownloadComplete

\* ---------------------------------------------------------------------------
\* Run termination

\* C21: for every finite symbol list, every call returning or raising, run_etl
\* processes each symbol exactly once, in list order, eventually finishes, and
\* has closed its session when it finishes.
\* While in the loop, the run is at symbols[idx] and has finished exactly the
\* symbols before it; a symbol is finished by one step, which moves the loop
\* to the next position of the list or, after the last one, to finally.
C21_RunTerminates ==
  /\ [](pc \in {"resolve", "fetch", "execute", "commit"} =>
          idx \in 1..Len(symbols) /\ Len(log) = idx - 1)
  /\ [](pc \in {"finally", "done"} => Len(log) = Len(symbols))
  /\ [][(pc \in {"resolve", "fetch", "execute", "commit"}) /\ log' # log =>
          /\ Len(log') = Len(log) + 1
          /\ IF idx < Len(symbols)
               THEN idx' = idx + 1 /\ pc' = "resolve"
               ELSE pc' = "finally"]_vars
  /\ <>(pc = "done")
  /\ [](pc = "done" => session = "closed")

\* a finished run over the longest list in which one symbol failed and another
\* was saved
C21_Witness ==
  /\ pc = "done"
  /\ Len(symbols) = MaxSymbols
  /\ Len(log) = MaxSymbols
  /\ \E i \in 1..Len(log) : log[i].outcome = "failed"
  /\ \E i \in 1..Len(log) : log[i].outcome = "success"
  /\ session = "closed"

\* ---------------------------------------------------------------------------
\* No deletion by ingestion

\* C22: no step of an ingestion run deletes an instrument row or a quote row:
\* the instrument identities and the (instrument_id, time) keys present in the
\* store only grow, and an instrument row once present stays as it is.
C22_NoDeletion ==
  [][/\ assets \subseteq assets'
     /\ {a.id : a \in assets} \subseteq {a.id : a \in assets'}
     /\ {<<q.asset_id, q.time>> : q \in quotes}
           \subseteq {<<q.asset_id, q.time>> : q \in quotes'}]_vars

\* a finished crypto run on the seeded store that created an instrument and
\* stored a batch overwriting one earlier row while the other earlier row and
\* the three seeded instruments are still there
C22_Witness ==
  /\ pc = "done"
  /\ pipeline = "crypto"
  /\ SeededAssets \subseteq assets
  /\ assets # SeededAssets
  /\ \E q \in quotes : q.created_at = "earlier" /\ q.open # 1
  /\ \E q \in quotes : q.created_at = "earlier" /\ q.open = 1
  /\ \E q \in quotes : q.created_at = "run"

\* ---------------------------------------------------------------------------
\* Seeding idempotence

\* the entries of the registry that upsert_asset accepts
Registered ==
  {item \in {seeding.config[i] : i \in DOMAIN seeding.config} :
     item.asset_class \in AssetClasses}

\* C23: running seed_master_data twice leaves the instruments table as running
\* it once does, and after a seeding run each (symbol, exchange) named in the
\* registry, however many times it is listed, is present as exactly one row.
C23_SeedingIdempotent ==
  /\ [][seeding.runs >= 2 => assets' = assets]_vars
  /\ [](seeding.pc \in {"done", "exited"} =>
          \A item \in Registered :
             Cardinality({a \in assets : a.symbol = item.symbol
                                         /\ a.exchange = item.exchange}) = 1)

\* ---------------------------------------------------------------------------
\* Sentiment scores

\* C24: every result of analyze has sentiment_score in [-1, 1], impact_score
\* in [0, 1] and confidence in [0, 1]; a value of the LLM outside its range is
\* replaced by the nearest bound of the range, a value inside is unchanged.
C24_ScoresClamped ==
  apc = "returned" /\ outcome.kind = "SentimentResult" =>
    \A f \in Fields :
      LET s == outcome.scores[f]
          raw == reply.data[f]
      IN /\ ~s.nan
         /\ s.error = ""
         /\ s.v \in LowerBound(f)..Unit
         /\ raw.kind \in {"number", "numeric_text"} =>
              s.v = IF raw.v < LowerBound(f) THEN LowerBound(f)
                    ELSE IF raw.v > Unit THEN Unit ELSE raw.v

\* a result whose sentiment was above 1, whose impact was below 0 and whose
\* confidence was strictly inside its range
C24_Witness ==
  /\ apc = "returned" /\ outcome.kind = "SentimentResult"
  /\ reply.data["sentiment_score"].kind = "number"
  /\ reply.data["sentiment_score"].v > Unit
  /\ outcome.scores["sentiment_score"].v = Unit
  /\ reply.data["impact_score"].kind = "number"
  /\ reply.data["impact_score"].v < 0
  /\ outcome.scores["impact_score"].v = 0
  /\ reply.data["confidence"].kind = "number"
  /\ reply.data["confidence"].v = 1
  /\ outcome.scores["confidence"].v = 1

AllWhitespace == \A i \in DOMAIN text : text[i] = " "

\* C25: analyze returns None and never raises when the text is empty or only
\* whitespace, when the LLM client returns no response or raises, and when a
\* score of the response is not numeric; for an empty or whitespace-only text
\* the LLM client is not called.
C25_AnalyzeNeverRaises ==
  /\ outcome.kind # "raised"
  /\ apc = "returned" =>
       /\ outcome.kind \in {"None", "SentimentResult"}
       /\ AllWhitespace => outcome = ResultNone /\ llm_calls = 0 /\ reply = NoReply
       /\ reply.kind \in {"None", "empty", "raises"} => outcome = ResultNone
       /\ (/\ reply.kind = "dict"
           /\ \E f \in Fields : reply.data[f].kind \in {"text", "null"})
          => outcome = ResultNone
  /\ AllWhitespace => llm_calls = 0

\* a call on a padded text whose response held a non-numeric confidence
\* after two numeric scores
C25_Witness ==
  /\ apc = "returned"
  /\ Len(text) > Len(prompt)
  /\ llm_calls = 1
  /\ reply.kind = "dict"
  /\ reply.data["sentiment_score"].kind = "number"
  /\ reply.data["impact_score"].kind = "numeric_text"
  /\ reply.data["confidence"].kind = "text"
  /\ outcome = ResultNone

\* ---------------------------------------------------------------------------
\* Per-symbol step order

\* the instrument the resolver of the running pipeline accepts for the symbol
Resolved ==
  /\ asset \in assets
  /\ asset.symbol = symbols[idx]
  /\ pipeline = "crypto" => asset.exchange = "BINANCE"
  /\ pipeline = "yahoo" => asset.is_active

C27_NoCrossSymbolTransaction ==
  pc = "resolve" /\ idx > 1 /\ Last(log).fault \in {"execute", "commit"}
    => session # "failed" /\ pending = quotes

\* ---------------------------------------------------------------------------
\* Equities lookup under an ambiguous symbol

SameSymbolRows == {a \in assets : a.symbol = symbols[idx]}

AmbiguousLookup ==
  /\ pipeline = "yahoo" /\ pc = "resolve"
  /\ Usable(session)
  /\ Cardinality(SameSymbolRows) >= 2

\* C28 as stated: when two or more instrument rows share the symbol, the
\* equities lookup resolves to one of those rows without raising and the
\* ingestion of the symbol proceeds (unless the query fails at the database).
C28_AmbiguousResolvesSilently ==
  [][AmbiguousLookup =>
       \/ pc' = "fetch" /\ asset' \in SameSymbolRows
       \/ Last(log').fault = "resolve"]_vars

\* C28, amended: when two or more instrument rows share the symbol, the
\* equities lookup raises; no row is resolved, nothing is fetched or written
\* for the symbol, the symbol ends failed and the run goes on with the next
\* symbol, its session still usable.
C28_AmbiguousLookupRaises ==
  [][AmbiguousLookup =>
       /\ pc' = Continue(idx, Len(symbols))
       /\ idx' = idx + 1
       /\ asset' = NoAsset
       /\ Last(log').outcome = "failed"
       /\ Last(log').fault \in {"ambiguous", "resolve"}
       /\ Last(log').fault = "ambiguous" => Usable(session')
       /\ assets' = assets /\ quotes' = quotes /\ pending' = pending]_vars

\* a finished equities run on the store that lists B on two exchanges: B
\* failed in the lookup, C after it was stored
C28_Witness ==
  /\ pc = "done"
  /\ pipeline = "yahoo"
  /\ assets = DualListedAssets
  /\ symbols = <<"B", "C">>
  /\ log[1] = Entry("ambiguous", "failed")
  /\ log[2].outcome = "success"
  /\ \A q \in quotes : q.asset_id \notin {a.id : a \in {b \in assets : b.symbol = "B"}}
  /\ quotes # {}

\* ---------------------------------------------------------------------------
\* Instrument creation and the fetch

\* the committed BINANCE rows of the symbol at hand
CryptoRows == {a \in assets : a.symbol = symbols[idx] /\ a.exchange = "BINANCE"}

InBatch(q) == q.asset_id = asset.id /\ \E i \in DOMAIN df : df[i].time = q.time

\* C30: save_market_data(session, asset_id, df) changes only market_quotes
\* rows keyed (asset_id, t) for a timestamp t of df, and of those only open,
\* high, low, close and volume: rows of other instruments, rows of the same
\* instrument at other timestamps, created_at of overwritten rows and the
\* instruments table are unchanged.
C30_UpsertFrame ==
  [][(pc \in {"execute", "commit"}) =>
       /\ assets' = assets
       /\ \A q \in quotes :
            IF InBatch(q)
            THEN \E q2 \in quotes' : SameKey(q2, q) /\ q2.created_at = q.created_at
            ELSE q \in quotes'
       /\ \A q2 \in quotes' \ quotes : InBatch(q2)
       /\ \A q \in pending' \ pending : InBatch(q)]_vars

\* after a committed save for instrument 1 on the seeded store: its earlier
\* row was overwritten and kept created_at, a row at a new timestamp was
\* inserted, the earlier row of instrument 2 is as it was
C30_Witness ==
  /\ LatestSaveCommitted
  /\ assets = SeededAssets
  /\ \E q \in quotes : q.asset_id = 1 /\ q.time = 0 /\ q.created_at = "earlier" /\ q.open = 3
  /\ \E q \in quotes : q.asset_id = 1 /\ q.time # 0 /\ q.created_at = "run"
  /\ \E q \in quotes : q.asset_id = 2 /\ q.created_at = "earlier" /\ q.open = 1
  /\ Cardinality(quotes) = 3

====
